---- MODULE Spec2Model ----
(***************************************************************************)
(* Wake-on-LAN: the magic-packet codec and its UDP transport (package wol) *)
(* and the device-list store of the HTTP layer (package api).              *)
(*                                                                         *)
(* Three specifications share the module:                                  *)
(*   SpecCodec  NewMagicPacket, HardwareAddr and IsMagicPacket applied to  *)
(*              encoded packets and to altered copies of them;             *)
(*   Spec       one call of WakeString or Wake, statement by statement,    *)
(*              with the network's answers chosen nondeterministically;    *)
(*   SpecStore  concurrent writeDevice / readDevices calls on one cache    *)
(*              file under the api's RWMutex.                              *)
(* Byte indices in comments are Go's (0-based); sequences are 1-based.     *)
(***************************************************************************)
EXTENDS Integers, Sequences, FiniteSets, TLC

VARIABLES
    \* codec
    cpc,        \* "input" | "ready" | "checked" | "extracted"
    hw,         \* the hardware address given to NewMagicPacket
    buf,        \* the byte sequence under test
    shape,      \* how buf was obtained: "none" | "encoded" | "flipped" | "truncated" | "extended"
    flipAt,     \* 0-based index of the changed byte, -1 when none
    verdict,    \* outcome of IsMagicPacket(buf): [panic, ret]
    addr,       \* outcome of MagicPacket(buf).HardwareAddr(): [panic, val]
    \* transport
    pc,         \* position of the call: "idle" | "WakeString" | "dial" | "write" | "close" | "done"
    entry,      \* the function the caller invoked: "none" | "WakeString" | "Wake"
    ws,         \* WakeString's frame: [srcIP, macAddr]
    wk,         \* Wake's frame: [src, hwAddr, laddr, conn, p, n, err]
    ret,        \* the error returned to the caller
    dials, writes, closes,      \* number of DialUDP / Write / Close calls made
    writeErr, closeErr,         \* what Write and Close answered
    \* store
    file,       \* content of the cache file
    mu,         \* the RWMutex: [readers, writer, pending]
    wd,         \* per goroutine: frame of writeDevice / readDevices
    before      \* the device list persisted when the calls started

codecVars == <<cpc, hw, buf, shape, flipAt, verdict, addr>>
wakeVars  == <<pc, entry, ws, wk, ret, dials, writes, closes, writeErr, closeErr>>
storeVars == <<file, mu, wd, before>>
vars == <<codecVars, wakeVars, storeVars>>

(***************************************************************************)
(* Bounds                                                                  *)
(***************************************************************************)
\* how many of the byte values of ByteOrder a hardware address is drawn from
NumByteVals == 2
\* how many goroutines call into the store
NumProcs == 2

ByteOrder == <<255, 0, 170, 1>>
ByteVals == {ByteOrder[i] : i \in 1..NumByteVals}

(***************************************************************************)
(* Codec                                                                   *)
(***************************************************************************)
hwAddrN == 16
bcastAddr == <<255, 255, 255, 255, 255, 255>>
bcastAddrOff == Len(bcastAddr)
\* the literal length IsMagicPacket compares with
MagicPacketLen == 102

\* make([]byte, len): len zero bytes
Make(len) == [i \in 1..len |-> 0]

\* copy(dst, src): the first min(len(dst), len(src)) bytes of dst are overwritten
Copy(dst, from) == [i \in 1..Len(dst) |-> IF i <= Len(from) THEN from[i] ELSE dst[i]]

\* bytes.Repeat(b, count)
RECURSIVE Repeat(_, _)
Repeat(b, count) == IF count <= 0 THEN <<>> ELSE b \o Repeat(b, count - 1)

\* bytes.Equal(a, b): same length and same bytes
Equal(a, b) == Len(a) = Len(b) /\ \A i \in 1..Len(a) : a[i] = b[i]

\* the slice expression s[lo:hi]; it panics (slice bounds out of range) when hi
\* exceeds the slice. A slice's capacity is taken to be its length.
Slice(s, lo, hi) ==
    IF lo > hi \/ hi > Len(s) \/ lo < 0
    THEN [panic |-> TRUE, val |-> <<>>]
    ELSE [panic |-> FALSE, val |-> SubSeq(s, lo + 1, hi)]

\* func (p MagicPacket) HardwareAddr(): p[bcastAddrOff : bcastAddrOff*2]
HardwareAddr(p) == Slice(p, bcastAddrOff, bcastAddrOff * 2)

\* NewMagicPacket with one repetition too few copied into the buffer
NewMagicPacket_FifteenReps(hwAddr) ==
    LET p0 == Make(bcastAddrOff + (hwAddrN * Len(hwAddr)))
        p1 == Copy(p0, bcastAddr)
        rest == Copy(SubSeq(p1, bcastAddrOff + 1, Len(p1)), Repeat(hwAddr, hwAddrN - 1))
    IN  SubSeq(p1, 1, bcastAddrOff) \o rest

\* NewMagicPacket with the repetitions copied to p instead of p[bcastAddrOff:]
NewMagicPacket_NoOffset(hwAddr) ==
    LET p0 == Make(bcastAddrOff + (hwAddrN * Len(hwAddr)))
        p1 == Copy(p0, bcastAddr)
    IN  Copy(p1, Repeat(hwAddr, hwAddrN))

\* func NewMagicPacket(hwAddr)
NewMagicPacket(hwAddr) ==
    LET p0 == Make(bcastAddrOff + (hwAddrN * Len(hwAddr)))
        p1 == Copy(p0, bcastAddr)
        rest == Copy(SubSeq(p1, bcastAddrOff + 1, Len(p1)), Repeat(hwAddr, hwAddrN))
    IN  SubSeq(p1, 1, bcastAddrOff) \o rest

\* IsMagicPacket comparing only the leading block after the prefix (a prefix test
\* in place of bytes.Equal)
IsMagicPacket_FirstBlockOnly(b) ==
    IF Len(b) # MagicPacketLen
    THEN [panic |-> FALSE, ret |-> FALSE]
    ELSE LET pre == Slice(b, 0, 6) IN
         IF pre.panic THEN [panic |-> TRUE, ret |-> FALSE]
         ELSE IF ~Equal(pre.val, bcastAddr) THEN [panic |-> FALSE, ret |-> FALSE]
         ELSE LET hwAddr == HardwareAddr(b) IN
              IF hwAddr.panic THEN [panic |-> TRUE, ret |-> FALSE]
              ELSE [panic |-> FALSE,
                    ret |-> Equal(Slice(b, bcastAddrOff, bcastAddrOff + Len(hwAddr.val)).val,
                                  hwAddr.val)]

\* IsMagicPacket without its length check
IsMagicPacket_NoLenCheck(b) ==
    LET pre == Slice(b, 0, 6) IN
    IF pre.panic THEN [panic |-> TRUE, ret |-> FALSE]
    ELSE IF ~Equal(pre.val, bcastAddr) THEN [panic |-> FALSE, ret |-> FALSE]
    ELSE LET hwAddr == HardwareAddr(b) IN
         IF hwAddr.panic THEN [panic |-> TRUE, ret |-> FALSE]
         ELSE LET rest == Slice(b, bcastAddrOff, Len(b)) IN
              IF rest.panic THEN [panic |-> TRUE, ret |-> FALSE]
              ELSE [panic |-> FALSE,
                    ret |-> Equal(rest.val, Repeat(hwAddr.val, hwAddrN))]

\* func IsMagicPacket(b): [panic, ret], panic when a slice expression is out of range
IsMagicPacket(b) ==
    IF Len(b) # MagicPacketLen
    THEN [panic |-> FALSE, ret |-> FALSE]
    ELSE LET pre == Slice(b, 0, 6) IN
         IF pre.panic THEN [panic |-> TRUE, ret |-> FALSE]
         ELSE IF ~Equal(pre.val, bcastAddr) THEN [panic |-> FALSE, ret |-> FALSE]
         ELSE LET hwAddr == HardwareAddr(b) IN
              IF hwAddr.panic THEN [panic |-> TRUE, ret |-> FALSE]
              ELSE LET rest == Slice(b, bcastAddrOff, Len(b)) IN
                   IF rest.panic THEN [panic |-> TRUE, ret |-> FALSE]
                   ELSE [panic |-> FALSE,
                         ret |-> Equal(rest.val, Repeat(hwAddr.val, hwAddrN))]

\* hardware addresses handed to the codec: every 6-byte address over ByteVals,
\* and addresses of other lengths (net.HardwareAddr is a byte slice of any length)
HwAddrs == [1..6 -> ByteVals] \cup {<<>>, <<1, 35, 69, 103, 137, 171, 205, 239>>}

\* the values a byte is changed to: any value of ByteVals, the next value, the complement
FlipVals(old) == (ByteVals \cup {(old + 1) % 256, 255 - old}) \ {old}

NoVerdict == [panic |-> FALSE, ret |-> FALSE]
NoAddr == [panic |-> FALSE, val |-> <<>>]

CodecIdle ==
    /\ cpc = "input"
    /\ hw = <<>>
    /\ buf = <<>>
    /\ shape = "none"
    /\ flipAt = -1
    /\ verdict = NoVerdict
    /\ addr = NoAddr

\* p := NewMagicPacket(hwAddr)
Encode ==
    /\ cpc = "input"
    /\ \E h \in HwAddrs :
          /\ hw' = h
          /\ buf' = NewMagicPacket(h)
    /\ shape' = "encoded"
    /\ cpc' = "ready"
    /\ UNCHANGED <<wakeVars, storeVars, flipAt, verdict, addr>>

\* a received sequence that differs from an encoded packet in the byte at index i
Flip ==
    /\ cpc = "ready" /\ shape = "encoded"
    /\ \E i \in 0..(Len(buf) - 1) : \E v \in FlipVals(buf[i + 1]) :
          /\ buf' = [buf EXCEPT ![i + 1] = v]
          /\ flipAt' = i
    /\ shape' = "flipped"
    /\ UNCHANGED <<wakeVars, storeVars, cpc, hw, verdict, addr>>

\* a received sequence that is the first k bytes of an encoded packet
Truncate ==
    /\ cpc = "ready" /\ shape = "encoded"
    /\ \E k \in 0..(Len(buf) - 1) : buf' = SubSeq(buf, 1, k)
    /\ shape' = "truncated"
    /\ UNCHANGED <<wakeVars, storeVars, cpc, hw, flipAt, verdict, addr>>

\* a received sequence that is an encoded packet followed by one more byte
Extend ==
    /\ cpc = "ready" /\ shape = "encoded"
    /\ \E v \in ByteVals : buf' = Append(buf, v)
    /\ shape' = "extended"
    /\ UNCHANGED <<wakeVars, storeVars, cpc, hw, flipAt, verdict, addr>>

\* IsMagicPacket(buf)
Validate ==
    /\ cpc = "ready"
    /\ verdict' = IsMagicPacket(buf)
    /\ cpc' = "checked"
    /\ UNCHANGED <<wakeVars, storeVars, hw, buf, shape, flipAt, addr>>

\* MagicPacket(buf).HardwareAddr()
Extract ==
    /\ cpc = "ready"
    /\ addr' = HardwareAddr(buf)
    /\ cpc' = "extracted"
    /\ UNCHANGED <<wakeVars, storeVars, hw, buf, shape, flipAt, verdict>>

(***************************************************************************)
(* Transport                                                               *)
(***************************************************************************)
\* Texts are sequences of one-character strings. Errors are records
\* [msg, arg]; arg is the literal the error message quotes.
NoErr == [msg |-> "nil", arg |-> <<>>]
ErrShortWrite == [msg |-> "short write", arg |-> <<>>]
ErrDial == [msg |-> "dial udp", arg |-> <<>>]
ErrWrite == [msg |-> "write udp", arg |-> <<>>]
ErrClose == [msg |-> "close udp", arg |-> <<>>]

Digits == <<"0", "1", "2", "3", "4", "5", "6", "7", "8", "9">>
HexLower == Digits \o <<"a", "b", "c", "d", "e", "f">>
HexUpper == Digits \o <<"A", "B", "C", "D", "E", "F">>
IsDigit(c) == \E i \in 1..10 : Digits[i] = c
IsHex(c) == \E i \in 1..16 : HexLower[i] = c \/ HexUpper[i] = c
DigitVal(c) == (CHOOSE i \in 1..10 : Digits[i] = c) - 1
HexVal(c) == (CHOOSE i \in 1..16 : HexLower[i] = c \/ HexUpper[i] = c) - 1

\* net.ParseMAC(s): [err, hw]. Two hex digits per byte separated by ':' or '-',
\* or four hex digits per group separated by '.'; 6, 8 or 20 bytes.
ParseMAC(s) ==
    LET L == Len(s)
        ch(i) == s[i + 1]
        fail == [err |-> [msg |-> "invalid MAC address", arg |-> s], hw |-> <<>>]
        \* xtoi2(s[x:], e)
        xtoi2ok(x, e) == /\ IsHex(ch(x)) /\ IsHex(ch(x + 1))
                         /\ (x + 2 < L => ch(x + 2) = e)
        \* xtoi2(s[x:x+2], 0)
        xtoi2okNoSep(x) == IsHex(ch(x)) /\ IsHex(ch(x + 1))
        byte(x) == (16 * HexVal(ch(x))) + HexVal(ch(x + 1))
    IN  IF L < 14 THEN fail
        ELSE IF ch(2) = ":" \/ ch(2) = "-"
        THEN LET cnt == (L + 1) \div 3 IN
             IF (L + 1) % 3 # 0 \/ cnt \notin {6, 8, 20} THEN fail
             ELSE IF \A i \in 0..(cnt - 1) : xtoi2ok(3 * i, ch(2))
                  THEN [err |-> NoErr, hw |-> [i \in 1..cnt |-> byte(3 * (i - 1))]]
                  ELSE fail
        ELSE IF ch(4) = "."
        THEN LET cnt == (2 * (L + 1)) \div 5 IN
             IF (L + 1) % 5 # 0 \/ cnt \notin {6, 8, 20} THEN fail
             ELSE IF \A g \in 0..((cnt \div 2) - 1) :
                        xtoi2okNoSep(5 * g) /\ xtoi2ok((5 * g) + 2, ".")
                  THEN [err |-> NoErr,
                        hw |-> [i \in 1..cnt |->
                                  byte((5 * ((i - 1) \div 2)) + (2 * ((i - 1) % 2)))]]
                  ELSE fail
        ELSE fail

\* the decimal fields of a dotted-decimal text from position i on: [ok, fields]
RECURSIVE IPv4Fields(_, _, _, _, _)
IPv4Fields(s, i, val, nd, acc) ==
    IF i > Len(s)
    THEN IF nd = 0 THEN [ok |-> FALSE, fields |-> <<>>]
         ELSE [ok |-> TRUE, fields |-> Append(acc, val)]
    ELSE IF s[i] = "."
    THEN IF nd = 0 THEN [ok |-> FALSE, fields |-> <<>>]
         ELSE IPv4Fields(s, i + 1, 0, 0, Append(acc, val))
    ELSE IF IsDigit(s[i])
    THEN IF (nd >= 1 /\ val = 0) \/ ((10 * val) + DigitVal(s[i]) > 255)
         THEN [ok |-> FALSE, fields |-> <<>>]
         ELSE IPv4Fields(s, i + 1, (10 * val) + DigitVal(s[i]), nd + 1, acc)
    ELSE [ok |-> FALSE, fields |-> <<>>]

\* net.ParseIP(s) for texts without ':' (IPv4 dotted decimal); <<>> is the nil IP
ParseIP(s) ==
    LET r == IPv4Fields(s, 1, 0, 0, <<>>)
    IN  IF r.ok /\ Len(r.fields) = 4 THEN r.fields ELSE <<>>

\* the texts WakeString is called with
MacTexts ==
    { <<"0","1",":","2","3",":","4","5",":","6","7",":","8","9",":","a","b">>,
      <<"F","F","-","F","F","-","F","F","-","F","F","-","F","F","-","F","F">>,
      <<"0","1","2","3",".","4","5","6","7",".","8","9","a","b">>,
      <<"0","1",":","2","3",":","4","5",":","6","7",":","8","9",":","a","b",":","c","d",":","e","f">>,
      <<"0","1",":","2","3",":","4","5",":","6","7",":","8","9",":","z","z">>,
      <<"0","1",":","2","3",":","4","5",":","6","7",":","8","9">>,
      <<"n","o","t","-","a","-","m","a","c">>,
      <<>> }

SrcTexts ==
    { <<>>,
      <<"1","0",".","0",".","0",".","7">>,
      <<"1","9","2",".","1","6","8",".","1",".","2","5","5">>,
      <<"n","o","t","-","a","n","-","i","p">>,
      <<"2","5","6",".","1",".","1",".","1">>,
      <<"1",".","2",".","3">> }

\* the arguments api.defaultHandler calls a.wake with: a.SourceIP (nil or set by
\* the operator) and a parsed MAC address
SourceIPs == {<<>>, <<10, 0, 0, 7>>}
WakeHwAddrs == {ParseMAC(t).hw : t \in {m \in MacTexts : ParseMAC(m).err = NoErr}}

WakeIdle ==
    /\ pc = "idle"
    /\ entry = "none"
    /\ ws = [srcIP |-> <<>>, macAddr |-> <<>>]
    /\ wk = [src |-> <<>>, hwAddr |-> <<>>, laddr |-> <<>>, conn |-> "none",
             p |-> <<>>, n |-> 0, err |-> NoErr]
    /\ ret = NoErr
    /\ dials = 0 /\ writes = 0 /\ closes = 0
    /\ writeErr = NoErr /\ closeErr = NoErr

\* a caller invokes WakeString(srcIP, macAddr)
CallWakeString ==
    /\ pc = "idle"
    /\ \E srcIP \in SrcTexts : \E macAddr \in MacTexts :
          ws' = [srcIP |-> srcIP, macAddr |-> macAddr]
    /\ entry' = "WakeString"
    /\ pc' = "WakeString"
    /\ UNCHANGED <<codecVars, storeVars, wk, ret, dials, writes, closes, writeErr, closeErr>>

\* a caller invokes Wake(src, hwAddr)
CallWake ==
    /\ pc = "idle"
    /\ \E src \in SourceIPs : \E hwAddr \in WakeHwAddrs :
          wk' = [wk EXCEPT !.src = src, !.hwAddr = hwAddr]
    /\ entry' = "Wake"
    /\ pc' = "dial"
    /\ UNCHANGED <<codecVars, storeVars, ws, ret, dials, writes, closes, writeErr, closeErr>>

\* WakeString that goes on with a nil source address when srcIP does not parse
WakeString_IgnoreBadIP ==
    /\ pc = "WakeString"
    /\ LET m == ParseMAC(ws.macAddr)
           src == IF ws.srcIP # <<>> THEN ParseIP(ws.srcIP) ELSE <<>>
       IN  IF m.err # NoErr
           THEN /\ ret' = m.err
                /\ pc' = "done"
                /\ wk' = wk
           ELSE /\ wk' = [wk EXCEPT !.src = src, !.hwAddr = m.hw]
                /\ pc' = "dial"
                /\ ret' = ret
    /\ UNCHANGED <<codecVars, storeVars, entry, ws, dials, writes, closes, writeErr, closeErr>>

\* func WakeString(srcIP, macAddr): both texts are parsed, then Wake is called
WakeString ==
    /\ pc = "WakeString"
    /\ LET m == ParseMAC(ws.macAddr)
           src == IF ws.srcIP # <<>> THEN ParseIP(ws.srcIP) ELSE <<>>
       IN  IF m.err # NoErr
           THEN /\ ret' = m.err
                /\ pc' = "done"
                /\ wk' = wk
           ELSE IF ws.srcIP # <<>> /\ src = <<>>
           THEN /\ ret' = [msg |-> "invalid ip", arg |-> ws.srcIP]
                /\ pc' = "done"
                /\ wk' = wk
           ELSE /\ wk' = [wk EXCEPT !.src = src, !.hwAddr = m.hw]
                /\ pc' = "dial"
                /\ ret' = ret
    /\ UNCHANGED <<codecVars, storeVars, entry, ws, dials, writes, closes, writeErr, closeErr>>

\* Dial that tries once more after a failed DialUDP
Dial_Retry ==
    /\ pc = "dial"
    /\ dials' = dials + 1
    /\ \E e \in {NoErr, ErrDial} :
          IF e # NoErr
          THEN /\ wk' = [wk EXCEPT !.laddr = wk.src, !.err = e]
               /\ IF dials = 0
                  THEN pc' = "dial" /\ ret' = ret
                  ELSE pc' = "done" /\ ret' = e
          ELSE /\ wk' = [wk EXCEPT !.laddr = wk.src, !.err = e, !.conn = "open"]
               /\ ret' = ret
               /\ pc' = "write"
    /\ UNCHANGED <<codecVars, storeVars, entry, ws, writes, closes, writeErr, closeErr>>

\* Wake, lines 47-55: laddr is src when src is not nil; net.DialUDP to
\* 255.255.255.255:9 answers with a connection or an error
Dial ==
    /\ pc = "dial"
    /\ dials' = dials + 1
    /\ \E e \in {NoErr, ErrDial} :
          IF e # NoErr
          THEN /\ wk' = [wk EXCEPT !.laddr = wk.src, !.err = e]
               /\ ret' = e
               /\ pc' = "done"
          ELSE /\ wk' = [wk EXCEPT !.laddr = wk.src, !.err = e, !.conn = "open"]
               /\ ret' = ret
               /\ pc' = "write"
    /\ UNCHANGED <<codecVars, storeVars, entry, ws, writes, closes, writeErr, closeErr>>

\* Write that tests the byte count before the error
Write_CountFirst ==
    /\ pc = "write"
    /\ writes' = writes + 1
    /\ LET p == NewMagicPacket(wk.hwAddr) IN
       \E e \in {NoErr, ErrWrite} : \E k \in 0..Len(p) :
          /\ wk' = [wk EXCEPT !.p = p, !.n = k, !.err = e]
          /\ writeErr' = e
          /\ IF k < Len(p)
             THEN ret' = ErrShortWrite /\ pc' = "done"
             ELSE ret' = ret /\ pc' = "close"
    /\ UNCHANGED <<codecVars, storeVars, entry, ws, dials, closes, closeErr>>

\* Wake, lines 56-60: the packet is built and written once; conn.Write answers
\* with a byte count and an error
Write ==
    /\ pc = "write"
    /\ writes' = writes + 1
    /\ LET p == NewMagicPacket(wk.hwAddr) IN
       \E e \in {NoErr, ErrWrite} : \E k \in 0..Len(p) :
          /\ wk' = [wk EXCEPT !.p = p, !.n = k, !.err = e]
          /\ writeErr' = e
          /\ IF e = NoErr /\ k < Len(p)
             THEN ret' = ErrShortWrite /\ pc' = "done"
             ELSE ret' = ret /\ pc' = "close"
    /\ UNCHANGED <<codecVars, storeVars, entry, ws, dials, closes, closeErr>>

\* Wake, lines 61-64: conn.Close, whose error replaces err
Close ==
    /\ pc = "close"
    /\ closes' = closes + 1
    /\ \E e1 \in {NoErr, ErrClose} :
          LET err == IF e1 # NoErr THEN e1 ELSE wk.err IN
          /\ closeErr' = e1
          /\ wk' = [wk EXCEPT !.conn = "closed", !.err = err]
          /\ ret' = err
    /\ pc' = "done"
    /\ UNCHANGED <<codecVars, storeVars, entry, ws, dials, writes, writeErr>>

(***************************************************************************)
(* Device-list store                                                       *)
(***************************************************************************)
\* A Devices value is [nil, Devices]: nil tells a nil slice from an empty one.
\* The cache file is a sequence of JSON tokens, <<>> when it holds no bytes.
Procs == 1..NumProcs

ErrOpen == [msg |-> "open", arg |-> <<>>]
ErrRead == [msg |-> "read", arg |-> <<>>]
ErrUnmarshal == [msg |-> "unexpected end of JSON input", arg |-> <<>>]
ErrEncode == [msg |-> "write", arg |-> <<>>]

StoredMAC == "00:11:22:33:44:55"
StoreMACs == {StoredMAC, "01:23:45:67:89:ab", "ff:ff:ff:ff:ff:ff"}

EmptyDevices == [nil |-> FALSE, Devices |-> <<>>]

\* what json.Encoder.Encode writes for a *Devices
Marshal(d) ==
    <<"{", "devices", ":">>
        \o (IF d.nil THEN <<"null">> ELSE <<"[">> \o d.Devices \o <<"]">>)
        \o <<"}", "LF">>

\* json.Unmarshal(data, &i) for non-empty data: [err, i]
Unmarshal(data) ==
    LET L == Len(data)
        bad == [err |-> ErrUnmarshal, i |-> [nil |-> TRUE, Devices |-> <<>>]]
    IN  IF L < 6 \/ SubSeq(data, 1, 3) # <<"{", "devices", ":">>
           \/ SubSeq(data, L - 1, L) # <<"}", "LF">>
        THEN bad
        ELSE IF L = 6 /\ data[4] = "null"
        THEN [err |-> NoErr, i |-> [nil |-> TRUE, Devices |-> <<>>]]
        ELSE IF L >= 7 /\ data[4] = "[" /\ data[L - 2] = "]"
        THEN [err |-> NoErr, i |-> [nil |-> FALSE, Devices |-> SubSeq(data, 5, L - 3)]]
        ELSE bad

\* func (d *Devices) add(device)
add(d, device) ==
    IF \E k \in 1..Len(d.Devices) : d.Devices[k] = device
    THEN d
    ELSE [nil |-> FALSE, Devices |-> Append(d.Devices, device)]

\* func (d *Devices) remove(device): keep starts as a nil slice
remove(d, device) ==
    LET keep == SelectSeq(d.Devices, LAMBDA v : v # device)
    IN  [nil |-> keep = <<>>, Devices |-> keep]

\* the data path of readDevices, lines 72-87: [err, i]
Decode(data) ==
    IF Len(data) = 0
    THEN [err |-> NoErr, i |-> EmptyDevices]
    ELSE LET r == Unmarshal(data) IN
         IF r.err # NoErr THEN r
         ELSE IF r.i.nil THEN [err |-> NoErr, i |-> EmptyDevices]
         ELSE r

IdleFrame == [pc |-> "idle", op |-> "none", device |-> "", i |-> EmptyDevices, err |-> NoErr]

StoreIdle ==
    /\ file = <<>>
    /\ mu = [readers |-> 0, writer |-> 0, pending |-> 0]
    /\ wd = <<>>
    /\ before = <<>>

\* the cache file is absent or empty, or holds a list an earlier call encoded
StoreInit ==
    /\ \E d \in {<<>>, <<StoredMAC>>} :
          /\ before = d
          /\ file \in {<<>>, Marshal([nil |-> FALSE, Devices |-> d])}
          /\ (d # <<>> => file # <<>>)
    /\ mu = [readers |-> 0, writer |-> 0, pending |-> 0]
    /\ wd = [proc \in Procs |-> IdleFrame]

\* defaultHandler, lines 116-142: GET calls readDevices, POST and DELETE call
\* writeDevice(device, add)
StoreCall(proc) ==
    /\ wd[proc].pc = "idle"
    /\ \E op \in {"get", "add", "remove"} : \E device \in StoreMACs :
          wd' = [wd EXCEPT ![proc] = [@ EXCEPT !.pc = "RLock", !.op = op, !.device = device]]
    /\ UNCHANGED <<codecVars, wakeVars, file, mu, before>>

\* readDevices, line 65: a.mu.RLock() waits while a writer holds or awaits the lock
RLock(proc) ==
    /\ wd[proc].pc = "RLock"
    /\ mu.writer = 0 /\ mu.pending = 0
    /\ mu' = [mu EXCEPT !.readers = @ + 1]
    /\ wd' = [wd EXCEPT ![proc].pc = "read"]
    /\ UNCHANGED <<codecVars, wakeVars, file, before>>

\* readDevices, lines 67-87 and the deferred RUnlock: the file is opened, read
\* and decoded; writeDevice goes on to its Lock only when err is nil
ReadFile(proc) ==
    /\ wd[proc].pc = "read"
    /\ mu' = [mu EXCEPT !.readers = @ - 1]
    /\ \E io \in {NoErr, ErrOpen, ErrRead} :
          LET r == IF io # NoErr THEN [err |-> io, i |-> EmptyDevices] ELSE Decode(file) IN
          wd' = [wd EXCEPT ![proc] =
                    [@ EXCEPT !.i = r.i, !.err = r.err,
                              !.pc = IF r.err # NoErr \/ wd[proc].op = "get"
                                     THEN "done" ELSE "Lock"]]
    /\ UNCHANGED <<codecVars, wakeVars, file, before>>

\* writeDevice, line 95: a.mu.Lock() first excludes other writers and stops new readers
LockAnnounce(proc) ==
    /\ wd[proc].pc = "Lock"
    /\ mu.writer = 0 /\ mu.pending = 0
    /\ mu' = [mu EXCEPT !.pending = proc]
    /\ wd' = [wd EXCEPT ![proc].pc = "LockWait"]
    /\ UNCHANGED <<codecVars, wakeVars, file, before>>

\* writeDevice, line 95: a.mu.Lock() returns once the active readers have left
LockAcquire(proc) ==
    /\ wd[proc].pc = "LockWait"
    /\ mu.pending = proc /\ mu.readers = 0
    /\ mu' = [mu EXCEPT !.pending = 0, !.writer = proc]
    /\ wd' = [wd EXCEPT ![proc].pc = "open"]
    /\ UNCHANGED <<codecVars, wakeVars, file, before>>

\* writeDevice, lines 97-101: os.OpenFile with O_TRUNC empties the file; on an
\* error the deferred Unlock runs and err is returned
OpenTrunc(proc) ==
    /\ wd[proc].pc = "open"
    /\ \E io \in {NoErr, ErrOpen} :
          IF io # NoErr
          THEN /\ wd' = [wd EXCEPT ![proc] = [@ EXCEPT !.err = io, !.pc = "done"]]
               /\ mu' = [mu EXCEPT !.writer = 0]
               /\ file' = file
          ELSE /\ wd' = [wd EXCEPT ![proc].pc = "encode"]
               /\ mu' = mu
               /\ file' = <<>>
    /\ UNCHANGED <<codecVars, wakeVars, before>>

\* writeDevice, lines 102-111 and the deferred Unlock: the list read earlier is
\* changed and encoded to the file; a failed write leaves none or part of it
EncodeFile(proc) ==
    /\ wd[proc].pc = "encode"
    /\ LET i == IF wd[proc].op = "add" THEN add(wd[proc].i, wd[proc].device)
                ELSE remove(wd[proc].i, wd[proc].device)
       IN  \E io \in {NoErr, ErrEncode} :
             /\ wd' = [wd EXCEPT ![proc] = [@ EXCEPT !.i = i, !.err = io, !.pc = "done"]]
             /\ IF io = NoErr
                THEN file' = Marshal(i)
                ELSE file' \in {<<>>, SubSeq(Marshal(i), 1, 4)}
    /\ mu' = [mu EXCEPT !.writer = 0]
    /\ UNCHANGED <<codecVars, wakeVars, before>>

(***************************************************************************)
(* Specifications                                                          *)
(***************************************************************************)
InitCodec == CodecIdle /\ WakeIdle /\ StoreIdle

NextCodec ==
    \/ Encode
    \/ Flip
    \/ Truncate
    \/ Extend
    \/ Validate
    \/ Extract

SpecCodec == InitCodec /\ [][NextCodec]_vars

Init == CodecIdle /\ WakeIdle /\ StoreIdle

Next ==
    \/ CallWakeString
    \/ CallWake
    \/ WakeString
    \/ Dial
    \/ Write
    \/ Close

Spec == Init /\ [][Next]_vars

InitStore == CodecIdle /\ WakeIdle /\ StoreInit

NextStore ==
    \/ \E proc \in Procs : StoreCall(proc)
    \/ \E proc \in Procs : RLock(proc)
    \/ \E proc \in Procs : ReadFile(proc)
    \/ \E proc \in Procs : LockAnnounce(proc)
    \/ \E proc \in Procs : LockAcquire(proc)
    \/ \E proc \in Procs : OpenTrunc(proc)
    \/ \E proc \in Procs : EncodeFile(proc)

SpecStore == InitStore /\ [][NextStore]_vars

(***************************************************************************)
(* Codec properties                                                        *)
(***************************************************************************)
AllFF == <<255, 255, 255, 255, 255, 255>>

\* C5: every packet NewMagicPacket builds from a 6-byte hardware address is
\* accepted by IsMagicPacket, FF:FF:FF:FF:FF:FF and 00:00:00:00:00:00 included.
C5_EncodedIsMagic ==
    (cpc = "checked" /\ shape = "encoded" /\ Len(hw) = 6)
        => (verdict.ret = TRUE /\ verdict.panic = FALSE)

C5_Witness ==
    cpc = "checked" /\ shape = "encoded" /\ hw = AllFF /\ verdict.ret = TRUE

\* C6: for a 6-byte hardware address h the packet is exactly 102 bytes, bytes
\* [0,6) are FF, each of the 16 blocks [6+6k, 12+6k) equals h, and HardwareAddr
\* returns h.
C6_EncodeLayout ==
    (shape = "encoded" /\ Len(hw) = 6)
        => /\ Len(buf) = 102
           /\ \A i \in 1..6 : buf[i] = 255
           /\ \A k \in 0..15 : SubSeq(buf, 7 + (6 * k), 12 + (6 * k)) = hw
           /\ cpc = "extracted" => (addr.panic = FALSE /\ addr.val = hw)

C6_Witness ==
    /\ cpc = "extracted" /\ shape = "encoded"
    /\ hw = <<255, 0, 0, 255, 0, 255>>
    /\ addr.val = hw
    /\ Len(buf) = 102

\* C7: changing any single byte at an index in [6,102) of a valid magic packet
\* makes IsMagicPacket return false, also when the index lies in [6,12).
C7_SingleFlipRejected ==
    (cpc = "checked" /\ shape = "flipped" /\ Len(hw) = 6 /\ flipAt \in 6..101)
        => verdict.ret = FALSE

C7_Witness ==
    /\ cpc = "checked" /\ shape = "flipped" /\ Len(hw) = 6
    /\ flipAt \in 6..11
    /\ IsMagicPacket(NewMagicPacket(hw)).ret = TRUE
    /\ verdict.ret = FALSE

\* C8: IsMagicPacket returns false for every sequence whose length is not 102,
\* and no slice expression of it goes out of range for any input.
C8_WrongLengthRejected ==
    cpc = "checked"
        => /\ verdict.panic = FALSE
           /\ Len(buf) # 102 => verdict.ret = FALSE

C8_Witness ==
    cpc = "checked" /\ Len(buf) = 0 /\ verdict = [panic |-> FALSE, ret |-> FALSE]

(***************************************************************************)
(* Transport properties                                                    *)
(***************************************************************************)
ParseErrors == {"invalid MAC address", "invalid ip"}

\* C1: whenever Wake has opened the UDP association, the association is closed
\* by the time the call returns, on every exit path.
C1_ClosedOnReturn ==
    pc = "done" => wk.conn # "open"

\* C2: first failure reported: a close error is returned only if no earlier
\* error occurred; when the write failed and the close fails too, the write
\* error is the one returned.
C2_FirstFailureReported ==
    (pc = "done" /\ closes = 1)
        => /\ (writeErr = NoErr /\ closeErr # NoErr) => ret = closeErr
           /\ (writeErr # NoErr /\ closeErr # NoErr) => ret = writeErr

\* C3: a write that reports no error and fewer bytes than the packet length
\* makes Wake return the short-write error, never success; a write that
\* reports an error contributes that error, whatever the byte count.
C3_ShortWrite ==
    /\ (pc = "done" /\ writes = 1 /\ writeErr = NoErr /\ wk.n < Len(wk.p))
            => (ret = ErrShortWrite /\ ret # NoErr)
    /\ (writes = 1 /\ writeErr # NoErr)
            => /\ pc = "close" => wk.err = writeErr
               /\ pc = "done" => ret # ErrShortWrite

C3_Witness ==
    /\ pc = "done" /\ writes = 1 /\ writeErr = NoErr
    /\ Len(wk.p) = 102 /\ wk.n = 101
    /\ ret = ErrShortWrite

\* C4: when WakeString ends in a malformed-address error no dial, write or
\* close has happened, and Wake is reached from WakeString only after both
\* texts parsed.
C4_ParseBeforeNetwork ==
    /\ (pc = "done" /\ ret.msg \in ParseErrors)
            => (dials = 0 /\ writes = 0 /\ closes = 0 /\ wk.conn = "none")
    /\ (entry = "WakeString" /\ (pc \in {"dial", "write", "close"} \/ dials > 0))
            => /\ ParseMAC(ws.macAddr).err = NoErr
               /\ wk.hwAddr = ParseMAC(ws.macAddr).hw
               /\ ws.srcIP # <<>> => (ParseIP(ws.srcIP) # <<>> /\ wk.src = ParseIP(ws.srcIP))

C4_Witness ==
    /\ pc = "done" /\ entry = "WakeString"
    /\ ParseMAC(ws.macAddr).err = NoErr
    /\ ws.srcIP = <<"n","o","t","-","a","n","-","i","p">>
    /\ ret = [msg |-> "invalid ip", arg |-> ws.srcIP]
    /\ dials = 0

\* C9: one call makes at most one dial and at most one write, and after a
\* failed dial, write, short write or close nothing more is attempted.
C9_OneShot ==
    /\ dials <= 1 /\ writes <= 1 /\ closes <= 1
    /\ writes <= dials /\ closes <= writes
    /\ (pc = "done" /\ ret = ErrDial) => (dials = 1 /\ writes = 0)
    /\ (pc = "done" /\ ret = ErrShortWrite) => (dials = 1 /\ writes = 1)
    /\ (pc = "done" /\ closes = 1) => (dials = 1 /\ writes = 1)

C9_Witness ==
    pc = "done" /\ ret = ErrDial /\ dials = 1 /\ writes = 0 /\ wk.conn = "none"

(***************************************************************************)
(* Store properties                                                        *)
(***************************************************************************)
Elems(seq) == {seq[k] : k \in 1..Len(seq)}

\* C10: when two concurrent writeDevice calls that add two distinct MAC
\* addresses have both returned, the persisted list holds both addresses and
\* every address that was there before; no add is lost.
C10_NoLostAdd ==
    \A p1 \in Procs : \A p2 \in Procs \ {p1} :
        ( /\ wd[p1].pc = "done" /\ wd[p2].pc = "done"
          /\ wd[p1].op = "add" /\ wd[p2].op = "add"
          /\ wd[p1].device # wd[p2].device
          /\ wd[p1].err = NoErr /\ wd[p2].err = NoErr
          /\ \A q \in Procs \ {p1, p2} : wd[q].pc = "idle" )
        => LET r == Decode(file) IN
           /\ r.err = NoErr
           /\ {wd[p1].device, wd[p2].device} \subseteq Elems(r.i.Devices)
           /\ Elems(before) \subseteq Elems(r.i.Devices)

====
